---- MODULE Spec2Model ----
(***************************************************************************)
(* Model of the light-client Scheduler of light-spike                      *)
(* (src/light-spike/src/components/scheduler.rs): skipping verification    *)
(* with recursive bisection.  The recursion of verify_light_block /        *)
(* perform_bisection is unfolded into an explicit call stack; the Router   *)
(* (Verifier and Fetcher) and the trusted store are the environment.       *)
(***************************************************************************)
EXTENDS Integers, Sequences, FiniteSets, TLC

\* ---------------------------------------------------------------- bounds
\* Largest of the low heights the caller uses.
MaxHeight == 3
\* Number of run_for_file / run_foreach_in_dir calls made before finalize.
MaxRuns == 2
\* Number of stack frames of verify_light_block the thread's stack can hold.
MaxDepth == 6
\* Width of the Height integer (u64 in the source, scaled down).
HeightBits == 3

HeightMax == 2^HeightBits - 1
Heights == 0..HeightMax
\* The heights an invocation is given: the low ones, or the ones next to the
\* largest Height, where the sum of two heights overflows.
InputHeights == {0..MaxHeight, (HeightMax - 1)..HeightMax}
\* Header hashes: two different headers can claim the same height.
Hashes == {0, 1}

\* ------------------------------------------------------------ data model
Header == [height : Heights, hash : Hashes]
TrustedState == [header : Header]
LightBlock == [height : Heights, hash : Hashes]
\* VerificationOptions are threaded through every call unchanged.
VerificationOptions == {"options"}

\* TSReader::get returned None.
NoState == [header |-> [height |-> -1, hash |-> -1]]
\* An entry of the store that no get has read yet.
Unread == [header |-> [height |-> -2, hash |-> -2]]

\* The error kinds a Verifier can report.
InsufficientVotingPower == "InsufficientVotingPower"
FatalErrors ==
    {"ImplementationSpecific", "InsufficientValidatorsOverlap", "InvalidCommit",
     "InvalidCommitValue", "InvalidNextValidatorSet", "InvalidValidatorSet",
     "NonIncreasingHeight", "NonMonotonicBftTime", "NotWithinTrustPeriod"}
VerifierError == FatalErrors \cup {InsufficientVotingPower}

VARIABLES
    trusted_store,     \* Scheduler.trusted_store: height -> TrustedState, NoState or Unread
    status,            \* "Idle", "Running", "Done", "Abort", "Panic", "StackOverflow"
    input,             \* the arguments of the top-level verify_light_block
    stack,             \* the active verify_light_block invocations, innermost last
    ret,               \* the value the innermost finished invocation returned
    result,            \* what the top-level invocation returned
    verifier_answers,  \* the Verifier's answers so far (the Verifier is a pure function)
    log,               \* the queries issued so far, in order
    previous,          \* the log and the result of the invocation before this one
    tests,             \* Tester.tests: the names of the registered tests, in order
    batches,           \* Tester.batches: the number of registered batch functions
    results,           \* Tester.results: test name -> the (path, TestResult) recorded
    calls,             \* the run_for_file / run_foreach_in_dir calls made so far
    finalized          \* how Tester::finalize ended, "No" before it is called

scheduler_vars ==
    <<trusted_store, status, input, stack, ret, result, verifier_answers, log, previous>>
tester_vars == <<tests, batches, results, calls, finalized>>
vars == <<trusted_store, status, input, stack, ret, result, verifier_answers, log,
          previous, tests, batches, results, calls, finalized>>

NoRet == [kind |-> "None"]
\* No invocation has returned yet.
NoRun == [status |-> "Idle", log |-> <<>>, result |-> NoRet]
Ok(states) == [kind |-> "Ok", states |-> states]
Err(e) == [kind |-> "Err", err |-> e]
\* SchedulerError::InvalidLightBlock(VerifierError)
InvalidLightBlock(e) == [kind |-> "InvalidLightBlock", err |-> e]

\* ------------------------------------------------------------ the store
\* The store is a reader over a content that the Scheduler cannot change.  The
\* content is any map from heights to states at that height; an entry is
\* settled by the first get that reads it and stays as it is.
StatesAt(height) == {ts \in TrustedState : ts.header.height = height}

\* TSReader::get: what a get at the height can return.
Get(height) ==
    IF trusted_store[height] = Unread
    THEN {NoState} \cup StatesAt(height)
    ELSE {trusted_store[height]}

\* The store after a get at the height has returned the entry.
Read(height, entry) == [trusted_store EXCEPT ![height] = entry]

\* ------------------------------------------------------------ the Router
VerifyLightBlock(trusted_state, light_block, options) ==
    [trusted_state |-> trusted_state, light_block |-> light_block, options |-> options]

VerificationSucceeded(ts) == [kind |-> "VerificationSucceeded", trusted_state |-> ts, err |-> "None"]
VerificationFailed(e) == [kind |-> "VerificationFailed", trusted_state |-> NoState, err |-> e]

\* Verifier contract: a success returns the state made of the block's header.
StateOf(light_block) ==
    [header |-> [height |-> light_block.height, hash |-> light_block.hash]]

\* Router::query_verifier: the answers the Verifier can give to a request.
\* It is deterministic: a request asked before gets the answer it got before.
query_verifier(request) ==
    IF \E a \in verifier_answers : a.request = request
    THEN {a.response : a \in {b \in verifier_answers : b.request = request}}
    ELSE {VerificationSucceeded(StateOf(request.light_block))}
            \cup {VerificationFailed(e) : e \in VerifierError}

\* Router::query_rpc(FetchLightBlock(height)): the block at the requested
\* height; successive calls return the same header.  Hashes are
\* interchangeable per height, so the chain the Fetcher serves has hash 0.
query_rpc(height) == [height |-> height, hash |-> 0]

\* ------------------------------------------------------------ log entries
GetEvent(depth, height, found) ==
    [kind |-> "get", depth |-> depth, height |-> height, found |-> found]
VerifierEvent(depth, request, response) ==
    [kind |-> "verifier", depth |-> depth, request |-> request, response |-> response]
RpcEvent(depth, height) ==
    [kind |-> "rpc", depth |-> depth, height |-> height]
\* The Fetcher could not return the block it was asked for.
FetchErrorEvent(depth, height) ==
    [kind |-> "fetch_error", depth |-> depth, height |-> height]

\* The Fetcher is deterministic as the Verifier is: a height it has returned
\* the block of is a height it returns the block of again.
FetchedBefore(height) ==
    \E events \in {log, previous.log} :
        \E i \in 1..Len(events) :
            events[i].kind = "rpc" /\ events[i].height = height

\* ------------------------------------------------------------ helpers
Last(s) == s[Len(s)]
Front(s) == SubSeq(s, 1, Len(s) - 1)
Top == stack[Len(stack)]
Pop == Front(stack)
Depth == Len(stack)

Frame(trusted_state, light_block, options) ==
    [trusted_state |-> trusted_state, light_block |-> light_block,
     options |-> options, pc |-> "start", pivot_trusted_states |-> <<>>]

\* Vec::sort_by_key(|ts| ts.header.height): a stable sort.
RECURSIVE InsertByHeight(_, _)
InsertByHeight(ts, sorted) ==
    IF sorted = <<>> \/ Last(sorted).header.height <= ts.header.height
    THEN Append(sorted, ts)
    ELSE Append(InsertByHeight(ts, Front(sorted)), Last(sorted))

RECURSIVE sort_by_key(_)
sort_by_key(states) ==
    IF states = <<>> THEN <<>>
    ELSE InsertByHeight(Last(states), sort_by_key(Front(states)))

\* The pivot of perform_bisection; checked_add fails when the sum overflows.
HeightOverflow(trusted_height, untrusted_height) ==
    trusted_height + untrusted_height > HeightMax
\* A pivot that adds the trusted height twice.
pivot_height_Trusted(trusted_height, untrusted_height) ==
    (trusted_height + trusted_height) \div 2
\* A pivot that rounds the midpoint up.
pivot_height_Ceil(trusted_height, untrusted_height) ==
    (trusted_height + untrusted_height + 1) \div 2
pivot_height(trusted_height, untrusted_height) ==
    (trusted_height + untrusted_height) \div 2

\* ------------------------------------------------------------ Init
Init ==
    /\ trusted_store = [h \in Heights |-> Unread]
    /\ status = "Idle"
    /\ input = Frame(NoState, [height |-> -1, hash |-> -1], "options")
    /\ stack = <<>>
    /\ ret = NoRet
    /\ result = NoRet
    /\ verifier_answers = {}
    /\ log = <<>>
    /\ previous = NoRun
    /\ tests = <<>>
    /\ batches = 0
    /\ results = <<>>
    /\ calls = 0
    /\ finalized = "No"

\* ------------------------------------------------------------ actions
\* The application calls Scheduler::verify_light_block.
Invoke ==
    /\ status = "Idle"
    /\ \E heights \in InputHeights, trusted_state \in TrustedState,
          light_block \in LightBlock, options \in VerificationOptions :
          /\ trusted_state.header.height \in heights
          /\ light_block.height \in heights
          /\ input' = Frame(trusted_state, light_block, options)
          /\ stack' = <<Frame(trusted_state, light_block, options)>>
    /\ status' = "Running"
    /\ UNCHANGED <<tester_vars, previous, trusted_store, ret, result, verifier_answers, log>>

\* The innermost invocation is at its first line.
AtStart ==
    /\ status = "Running"
    /\ ret = NoRet
    /\ stack # <<>>
    /\ Top.pc = "start"

\* verification_succeded, lines 86-91
verification_succeded(new_trusted_state) == Ok(<<new_trusted_state>>)

\* A shortcut that answers with the caller's trusted state, not the stored one.
StoreHit_ReturnsAnchor ==
    /\ status = "Running"
    /\ ret = NoRet
    /\ stack # <<>>
    /\ Top.pc = "start"
    /\ \E trusted_state_in_store \in Get(Top.light_block.height) \ {NoState} :
          /\ trusted_store' = Read(Top.light_block.height, trusted_state_in_store)
          /\ ret' = verification_succeded(Top.trusted_state)
    /\ log' = Append(log, GetEvent(Depth, Top.light_block.height, TRUE))
    /\ stack' = Pop
    /\ UNCHANGED <<tester_vars, previous, status, input, result, verifier_answers>>

\* A shortcut that answers with the block asked for, not the stored state.
StoreHit_ReturnsBlock ==
    /\ status = "Running"
    /\ ret = NoRet
    /\ stack # <<>>
    /\ Top.pc = "start"
    /\ \E trusted_state_in_store \in Get(Top.light_block.height) \ {NoState} :
          /\ trusted_store' = Read(Top.light_block.height, trusted_state_in_store)
          /\ ret' = verification_succeded(StateOf(Top.light_block))
    /\ log' = Append(log, GetEvent(Depth, Top.light_block.height, TRUE))
    /\ stack' = Pop
    /\ UNCHANGED <<tester_vars, previous, status, input, result, verifier_answers>>

\* verify_light_block, lines 51-53: the store holds a state at the height.
StoreHit ==
    /\ AtStart
    /\ \E trusted_state_in_store \in Get(Top.light_block.height) \ {NoState} :
          /\ trusted_store' = Read(Top.light_block.height, trusted_state_in_store)
          /\ ret' = verification_succeded(trusted_state_in_store)
    /\ log' = Append(log, GetEvent(Depth, Top.light_block.height, TRUE))
    /\ stack' = Pop
    /\ UNCHANGED <<tester_vars, previous, status, input, result, verifier_answers>>

\* The request of perform_verify_light_block for the innermost invocation.
Request == VerifyLightBlock(Top.trusted_state, Top.light_block, Top.options)

\* The store misses and the Verifier is asked (lines 55-60).
Asked(response) ==
    /\ AtStart
    /\ NoState \in Get(Top.light_block.height)
    /\ trusted_store' = Read(Top.light_block.height, NoState)
    /\ response \in query_verifier(Request)
    /\ verifier_answers' =
          verifier_answers \cup {[request |-> Request, response |-> response]}

Queried(response) ==
    <<GetEvent(Depth, Top.light_block.height, FALSE),
      VerifierEvent(Depth, Request, response)>>

\* A Scheduler that writes the state it has verified into the store.
DirectSucceeded_Memoises ==
    \E response \in {VerificationSucceeded(ts) : ts \in TrustedState} :
        /\ status = "Running"
        /\ ret = NoRet
        /\ stack # <<>>
        /\ Top.pc = "start"
        /\ NoState \in Get(Top.light_block.height)
        /\ response \in query_verifier(Request)
        /\ trusted_store' = Read(Top.light_block.height, response.trusted_state)
        /\ verifier_answers' =
              verifier_answers \cup {[request |-> Request, response |-> response]}
        /\ log' = log \o Queried(response)
        /\ ret' = verification_succeded(response.trusted_state)
        /\ stack' = Pop
        /\ UNCHANGED <<tester_vars, previous, status, input, result>>

\* verify_light_block, lines 63-65: the Verifier accepts the block.
DirectSucceeded ==
    \E response \in {VerificationSucceeded(ts) : ts \in TrustedState} :
        /\ Asked(response)
        /\ log' = log \o Queried(response)
        /\ ret' = verification_succeded(response.trusted_state)
        /\ stack' = Pop
        /\ UNCHANGED <<tester_vars, previous, status, input, result>>

\* A match that also sends InsufficientValidatorsOverlap to the bisection.
IsInsufficientVotingPower_Wide(err) ==
    err \in {InsufficientVotingPower, "InsufficientValidatorsOverlap"}
\* A match without the bisection arm.
IsInsufficientVotingPower_Never(err) == FALSE

\* verification_failed, lines 101-104: the error that leads to the bisection.
IsInsufficientVotingPower(err) == err = InsufficientVotingPower

\* verification_failed, lines 105-108: any other error is returned.
DirectFailed ==
    \E response \in {VerificationFailed(e) : e \in VerifierError} :
        /\ Asked(response)
        /\ ~IsInsufficientVotingPower(response.err)
        /\ log' = log \o Queried(response)
        /\ ret' = Err(InvalidLightBlock(response.err))
        /\ stack' = Pop
        /\ UNCHANGED <<tester_vars, previous, status, input, result>>

\* perform_bisection, lines 119-130: the pivot is fetched and the left
\* recursion (trusted state to pivot) is entered.
PerformBisection ==
    \E response \in {VerificationFailed(e) : e \in VerifierError} :
        /\ Asked(response)
        /\ IsInsufficientVotingPower(response.err)
        /\ ~HeightOverflow(Top.trusted_state.header.height, Top.light_block.height)
        /\ Depth < MaxDepth
        /\ LET pivot == pivot_height(Top.trusted_state.header.height,
                                     Top.light_block.height)
               pivot_light_block == query_rpc(pivot)
           IN /\ log' = log \o Queried(response) \o <<RpcEvent(Depth, pivot)>>
              /\ stack' = Append([stack EXCEPT ![Depth].pc = "left"],
                                 Frame(Top.trusted_state, pivot_light_block, Top.options))
        /\ UNCHANGED <<tester_vars, previous, status, input, ret, result>>

\* perform_bisection, lines 122-125: checked_add(..).expect("height overflow").
PanicHeightOverflow ==
    \E response \in {VerificationFailed(e) : e \in VerifierError} :
        /\ Asked(response)
        /\ IsInsufficientVotingPower(response.err)
        /\ HeightOverflow(Top.trusted_state.header.height, Top.light_block.height)
        /\ log' = log \o Queried(response)
        /\ status' = "Panic"
        /\ UNCHANGED <<tester_vars, previous, input, stack, ret, result>>

\* request_fetch_light_block, lines 148-152: RpcResponse has the one variant
\* FetchedLightBlock, so a Fetcher that cannot return the block has no value
\* to answer with; the Requester's error arms are todo!(), a panic.
FetchPanicked ==
    \E response \in {VerificationFailed(e) : e \in VerifierError} :
        /\ Asked(response)
        /\ IsInsufficientVotingPower(response.err)
        /\ ~HeightOverflow(Top.trusted_state.header.height, Top.light_block.height)
        /\ LET pivot == pivot_height(Top.trusted_state.header.height,
                                     Top.light_block.height)
           IN /\ ~FetchedBefore(pivot)
              /\ log' = log \o Queried(response)
                    \o <<RpcEvent(Depth, pivot), FetchErrorEvent(Depth, pivot)>>
        /\ status' = "Panic"
        /\ UNCHANGED <<tester_vars, previous, input, stack, ret, result>>

\* The recursion is deeper than the thread's stack: the process is killed.
StackOverflow ==
    \E response \in {VerificationFailed(e) : e \in VerifierError} :
        /\ Asked(response)
        /\ IsInsufficientVotingPower(response.err)
        /\ ~HeightOverflow(Top.trusted_state.header.height, Top.light_block.height)
        /\ Depth >= MaxDepth
        /\ log' = log \o Queried(response)
               \o <<RpcEvent(Depth, pivot_height(Top.trusted_state.header.height,
                                                 Top.light_block.height))>>
        /\ status' = "StackOverflow"
        /\ UNCHANGED <<tester_vars, previous, input, stack, ret, result>>

Returned ==
    /\ status = "Running"
    /\ ret # NoRet
    /\ stack # <<>>

\* A right recursion that starts from the caller's trusted state.
LeftReturned_AnchorT0 ==
    /\ status = "Running"
    /\ ret # NoRet
    /\ stack # <<>>
    /\ Top.pc = "left"
    /\ ret.kind = "Ok"
    /\ stack' = Append([stack EXCEPT ![Depth].pc = "right",
                                     ![Depth].pivot_trusted_states = ret.states],
                       Frame(Top.trusted_state, Top.light_block, Top.options))
    /\ ret' = NoRet
    /\ UNCHANGED <<tester_vars, previous, trusted_store, status, input, result, verifier_answers, log>>

\* perform_bisection, lines 130-135: the left recursion returned its states;
\* the right recursion (last left state to the target) is entered.
LeftReturned ==
    /\ Returned
    /\ Top.pc = "left"
    /\ ret.kind = "Ok"
    /\ LET pivot_trusted_states == ret.states
           trusted_state_left == Last(pivot_trusted_states)
       IN stack' = Append([stack EXCEPT ![Depth].pc = "right",
                                        ![Depth].pivot_trusted_states = pivot_trusted_states],
                          Frame(trusted_state_left, Top.light_block, Top.options))
    /\ ret' = NoRet
    /\ UNCHANGED <<tester_vars, previous, trusted_store, status, input, result, verifier_answers, log>>

\* A merge that keeps the right recursion's result alone.
Merge_RightOnly(new_trusted_states, pivot_trusted_states) ==
    sort_by_key(new_trusted_states)

\* perform_bisection, lines 137-140: right ++ left, sorted by height.
Merge(new_trusted_states, pivot_trusted_states) ==
    sort_by_key(new_trusted_states \o pivot_trusted_states)

RightReturned ==
    /\ Returned
    /\ Top.pc = "right"
    /\ ret.kind = "Ok"
    /\ ret' = Ok(Merge(ret.states, Top.pivot_trusted_states))
    /\ stack' = Pop
    /\ UNCHANGED <<tester_vars, previous, trusted_store, status, input, result, verifier_answers, log>>

\* A bisection that drops the error of its left recursion and goes on with
\* the right one.
ErrorPropagated_Continues ==
    /\ status = "Running"
    /\ ret # NoRet
    /\ stack # <<>>
    /\ ret.kind = "Err"
    /\ IF Top.pc = "left"
       THEN /\ stack' = Append([stack EXCEPT ![Depth].pc = "right",
                                             ![Depth].pivot_trusted_states =
                                                 <<Top.trusted_state>>],
                               Frame(Top.trusted_state, Top.light_block, Top.options))
            /\ ret' = NoRet
       ELSE /\ stack' = Pop
            /\ ret' = ret
    /\ UNCHANGED <<tester_vars, previous, trusted_store, status, input, result, verifier_answers, log>>

\* The ? of lines 130 and 135: an error of a recursion is returned as it is.
ErrorPropagated ==
    /\ Returned
    /\ ret.kind = "Err"
    /\ stack' = Pop
    /\ UNCHANGED <<tester_vars, previous, trusted_store, status, input, ret, result, verifier_answers, log>>

\* The top-level verify_light_block returns to the application.
Return ==
    /\ status = "Running"
    /\ ret # NoRet
    /\ stack = <<>>
    /\ result' = ret
    /\ ret' = NoRet
    /\ status' = IF ret.kind = "Ok" THEN "Done" ELSE "Abort"
    /\ UNCHANGED <<tester_vars, previous, trusted_store, input, stack, verifier_answers, log>>

Next ==
    \/ Invoke
    \/ StoreHit
    \/ DirectSucceeded
    \/ DirectFailed
    \/ PerformBisection
    \/ PanicHeightOverflow
    \/ FetchPanicked
    \/ StackOverflow
    \/ LeftReturned
    \/ RightReturned
    \/ ErrorPropagated
    \/ Return

Spec == Init /\ [][Next]_vars

\* A Scheduler that writes the last state of the left result into the store.
InvokeAgain_AfterMemoising ==
    /\ status \in {"Done", "Abort"}
    /\ previous = NoRun
    /\ previous' = [status |-> status, log |-> log, result |-> result]
    /\ stack' = <<input>>
    /\ status' = "Running"
    /\ result' = NoRet
    /\ log' = <<>>
    /\ trusted_store' =
          [h \in Heights |->
              IF /\ trusted_store[h] = NoState
                 /\ result.kind = "Ok"
                 /\ \E k \in 1..Len(result.states) : result.states[k].header.height = h
              THEN CHOOSE ts \in StatesAt(h) :
                      \E k \in 1..Len(result.states) : result.states[k] = ts
              ELSE trusted_store[h]]
    /\ UNCHANGED <<tester_vars, input, ret, verifier_answers>>

\* The application calls verify_light_block a second time with the arguments
\* of the first call, on the same store and the same Router.
InvokeAgain ==
    /\ status \in {"Done", "Abort"}
    /\ previous = NoRun
    /\ previous' = [status |-> status, log |-> log, result |-> result]
    /\ stack' = <<input>>
    /\ status' = "Running"
    /\ result' = NoRet
    /\ log' = <<>>
    /\ UNCHANGED <<tester_vars, trusted_store, input, ret, verifier_answers>>

NextTwice ==
    \/ Next
    \/ InvokeAgain

SpecTwice == Init /\ [][NextTwice]_vars

\* ------------------------------------------------------------ the Tester
\* TestResult (Failure without its message and location).
TestResult == {"ReadError", "ParseError", "Success", "Failure"}
\* What a test does on a content that parses as its test case: it returns,
\* or it panics.  The panic hook capture_test installs is the one hook of the
\* process: a panic can unwind without that hook being run for it (a tester on
\* another thread has installed its own since, or the test unwinds with
\* resume_unwind, which runs no hook).
TestBody == {"returns", "panics", "panics_unhooked"}
\* parse_as::<T>(input): Err, or Ok(test_case) and what the test does on it.
ParseAs == {"Err"} \cup TestBody
\* capture_test, lines 209-239: test_result starts as ParseError, the hook
\* makes it a Failure, and a run that unwinds returns what is stored.
capture_test(test) ==
    IF test = "returns" THEN "Success"
    ELSE IF test = "panics" THEN "Failure"
    ELSE "ParseError"
\* test_fn of add_test, lines 246-251
test_fn(parsed_as) ==
    IF parsed_as = "Err" THEN "ParseError" ELSE capture_test(parsed_as)

\* A batch function returns None when the content does not parse as its batch.
None == [kind |-> "None"]
Some(sub_tests) == [kind |-> "Some", tests |-> sub_tests]

\* The suites that are registered: every prefix of one of these name lists,
\* with at most one batch function.  A test name can be the empty string.
Suites == {<<"single_step", "">>, <<"", "single_step">>, <<"single_step", "bisection">>}
BatchCounts == {0, 1}

\* The content of a file, or of a test of a batch, as the registered functions
\* see it: what it parses as for each test and what each batch makes of it.
Leaves(suite, batch_count) ==
    [parse_as : [1..Len(suite) -> ParseAs],
     expansions : {[b \in 1..batch_count |-> None]}]
SubTest(name, content) == [name |-> name, content |-> content]
Expansions(suite, batch_count) ==
    {None, Some(<<>>)}
        \cup {Some(<<SubTest("x", leaf)>>) : leaf \in Leaves(suite, batch_count)}
        \cup {Some(<<SubTest("x", leaf), SubTest("y", leaf)>>) :
                 leaf \in Leaves(suite, batch_count)}
Unparsed(suite) == [i \in 1..Len(suite) |-> "Err"]
Inputs(suite, batch_count) ==
    [parse_as : {Unparsed(suite)},
     expansions : [1..batch_count -> Expansions(suite, batch_count)]]
        \cup [parse_as : [1..Len(suite) -> ParseAs],
              expansions : [1..batch_count ->
                  {None, Some(<<SubTest("x", [parse_as |-> [i \in 1..Len(suite) |-> "returns"],
                                              expansions |-> [b \in 1..batch_count |-> None]])>>)}]]

\* A path is the sequence of its components; path + "/" + name appends one.
Join(path, name) == Append(path, name)
root_dir == "tests"

\* results_for, lines 295-299: the entry of the name, inserted empty if new.
results_for(res, name) ==
    IF name \in DOMAIN res THEN res ELSE res @@ (name :> <<>>)
\* add_result, lines 301-303
add_result(res, name, path, test_result) ==
    [results_for(res, name) EXCEPT ![name] = Append(@, <<path, test_result>>)]
\* read_error and parse_error, lines 305-313: recorded under the empty name.
read_error(res, path) == add_result(res, "", path, "ReadError")
parse_error(res, path) == add_result(res, "", path, "ParseError")

\* run_for_input, lines 365-370: the tests that did not return ParseError.
RECURSIVE Parsed(_, _)
Parsed(content, i) ==
    IF i > Len(tests) THEN <<>>
    ELSE IF test_fn(content.parse_as[i]) = "ParseError" THEN Parsed(content, i + 1)
    ELSE <<[name |-> tests[i], res |-> test_fn(content.parse_as[i])]>>
            \o Parsed(content, i + 1)
\* run_for_input, lines 372-374
RECURSIVE AddResults(_, _, _)
AddResults(res, path, parsed) ==
    IF parsed = <<>> THEN res
    ELSE AddResults(add_result(res, parsed[1].name, path, parsed[1].res),
                    path, Tail(parsed))
\* run_for_input, lines 377-388: the tests of every batch that parses.
RECURSIVE NamedUnder(_, _)
NamedUnder(path, sub_tests) ==
    IF sub_tests = <<>> THEN <<>>
    ELSE <<[path |-> Join(path, sub_tests[1].name), content |-> sub_tests[1].content]>>
            \o NamedUnder(path, Tail(sub_tests))
RECURSIVE BatchTests(_, _, _)
BatchTests(path, content, b) ==
    IF b > batches THEN <<>>
    ELSE IF content.expansions[b] = None THEN BatchTests(path, content, b + 1)
    ELSE NamedUnder(path, content.expansions[b].tests) \o BatchTests(path, content, b + 1)

\* run_for_input, lines 363-398
RECURSIVE run_for_input(_, _, _)
RECURSIVE RunAll(_, _)
RunAll(res, res_tests) ==
    IF res_tests = <<>> THEN res
    ELSE RunAll(run_for_input(res, res_tests[1].path, res_tests[1].content),
                Tail(res_tests))
run_for_input(res, path, content) ==
    IF Parsed(content, 1) # <<>>
    THEN AddResults(res, path, Parsed(content, 1))
    ELSE IF BatchTests(path, content, 1) # <<>>
    THEN RunAll(res, BatchTests(path, content, 1))
    ELSE parse_error(res, path)

\* TestEnv::read_file: the file cannot be read, or it has a content.
Unreadable == [kind |-> "None"]
Contents == {Unreadable} \cup Inputs(tests, batches)
\* run_for_file, lines 400-405
run_for_file(res, path, content) ==
    IF content = Unreadable THEN read_error(res, path)
    ELSE run_for_input(res, path, content)

\* The directory the Tester is run on: a file to skip for its underscore, a
\* file that is not .json, a test file and an empty directory.
FileName(underscore, stem, extension) ==
    [underscore |-> underscore, stem |-> stem, extension |-> extension]
TestFile == FileName(FALSE, "case", "json")
Entry(name, kind, entries) == [name |-> name, kind |-> kind, entries |-> entries]
Listing ==
    <<Entry(FileName(TRUE, "_skipped", "json"), "file", <<>>),
      Entry(FileName(FALSE, "notes", "txt"), "file", <<>>),
      Entry(TestFile, "file", <<>>),
      Entry(FileName(FALSE, "sub", ""), "dir", <<>>)>>
starts_with_underscore(entry) == entry.name.underscore
ends_with_json(entry) == entry.name.extension = "json"

\* run_foreach_in_dir, lines 424-444: the entries of a directory that was
\* read; a directory below it is read in turn.
RECURSIVE ForEachEntry(_, _, _, _)
ForEachEntry(res, dir, entries, content) ==
    IF entries = <<>> THEN res
    ELSE LET entry == entries[1]
             rel_path == Join(dir, entry.name)
             after ==
                 IF starts_with_underscore(entry) THEN res
                 ELSE IF entry.kind = "file"
                 THEN IF ends_with_json(entry)
                      THEN run_for_file(res, rel_path, content)
                      ELSE res
                 ELSE ForEachEntry(res, rel_path, entry.entries, content)
         IN ForEachEntry(after, dir, Tail(entries), content)

Open == finalized = "No"

\* Tester::add_test, lines 241-256
AddTest ==
    /\ Open
    /\ calls = 0
    /\ \E suite \in Suites :
          /\ Len(tests) < Len(suite)
          /\ tests = SubSeq(suite, 1, Len(tests))
          /\ tests' = Append(tests, suite[Len(tests) + 1])
    /\ UNCHANGED <<scheduler_vars, batches, results, calls, finalized>>

\* Tester::add_test_batch, lines 283-293
AddTestBatch ==
    /\ Open
    /\ calls = 0
    /\ batches + 1 \in BatchCounts
    /\ batches' = batches + 1
    /\ UNCHANGED <<scheduler_vars, tests, results, calls, finalized>>

\* Tester::run_for_file, lines 400-405
RunForFile ==
    /\ Open
    /\ calls < MaxRuns
    /\ \E content \in Contents :
          results' = run_for_file(results, <<TestFile>>, content)
    /\ calls' = calls + 1
    /\ UNCHANGED <<scheduler_vars, tests, batches, finalized>>

\* Tester::run_foreach_in_dir, lines 407-448, on the root directory
RunForeachInDir ==
    /\ Open
    /\ calls < MaxRuns
    /\ \/ results' = read_error(results, <<root_dir>>)
       \/ \E content \in Contents :
             results' = ForEachEntry(results, <<>>, Listing, content)
    /\ calls' = calls + 1
    /\ UNCHANGED <<scheduler_vars, tests, batches, finalized>>

Recorded(name, test_result) ==
    IF name \in DOMAIN results
    THEN {k \in 1..Len(results[name]) : results[name][k][2] = test_result}
    ELSE {}
\* failed_tests, lines 327-337
failed_tests(name) == Recorded(name, "Failure")
\* unreadable_tests and unparseable_tests, lines 339-361
unreadable_tests == Recorded("", "ReadError")
unparseable_tests == Recorded("", "ParseError")

\* finalize, lines 456-504: the names of the report skip the empty name.
do_panic ==
    \/ \E name \in DOMAIN results \ {""} : failed_tests(name) # {}
    \/ unreadable_tests # {}
    \/ unparseable_tests # {}

\* Tester::finalize, lines 450-512
Finalize ==
    /\ Open
    /\ finalized' = IF do_panic THEN "Panicked" ELSE "Returned"
    /\ UNCHANGED <<scheduler_vars, tests, batches, results, calls>>

\* finalize, line 451: output_env() is None when the output directory
\* cannot be created, and unwrap() panics before the report.
FinalizeWithoutOutputDir ==
    /\ Open
    /\ finalized' = "NoOutputDir"
    /\ UNCHANGED <<scheduler_vars, tests, batches, results, calls>>

TesterNext ==
    \/ AddTest
    \/ AddTestBatch
    \/ RunForFile
    \/ RunForeachInDir
    \/ Finalize
    \/ FinalizeWithoutOutputDir

TesterSpec == Init /\ [][TesterNext]_vars

\* ------------------------------------------------------------ properties
T0 == input.trusted_state
Target == input.light_block
Succeeded == status = "Done"
Chain == result.states

StrictlyIncreasing(states) ==
    \A i \in 1..(Len(states) - 1) :
        states[i].header.height < states[i + 1].header.height

ValidInput == T0.header.height < Target.height

\* The queries of the log, by kind.
Events(kind) == {i \in 1..Len(log) : log[i].kind = kind}
\* Every verify_light_block invocation starts with one trusted_store.get.
NumCalls == Cardinality(Events("get"))

\* Element i of the chain came from the store, or from the Verifier with the
\* element before it (T0 for the first) as the anchor.
FromStore(ts) ==
    \E i \in Events("get") :
        log[i].found /\ log[i].height = ts.header.height /\ trusted_store[log[i].height] = ts
AcceptedWithAnchor(ts, anchor) ==
    \E i \in Events("verifier") :
        /\ log[i].request.trusted_state = anchor
        /\ log[i].response = VerificationSucceeded(ts)
Anchored(states, first_anchor) ==
    \A i \in 1..Len(states) :
        \/ FromStore(states[i])
        \/ AcceptedWithAnchor(states[i], IF i = 1 THEN first_anchor ELSE states[i - 1])

Gap(frame) == frame.light_block.height - frame.trusted_state.header.height
SameCall(f, g) ==
    /\ f.trusted_state = g.trusted_state
    /\ f.light_block = g.light_block
    /\ f.options = g.options

\* C1: every successful verify_light_block returns a non-empty vector whose
\* last element is at the height of the target light block.
C1_ChainEndsAtTarget ==
    Succeeded => Len(Chain) >= 1 /\ Last(Chain).header.height = Target.height

\* The same for the inputs the Scheduler requires (H_t < H_u).
ChainEndsAtTarget_ValidInput ==
    (Succeeded /\ ValidInput) =>
        Len(Chain) >= 1 /\ Last(Chain).header.height = Target.height

\* C2: the chain of a successful verify_light_block is strictly increasing
\* by height: no two elements share a height.
C2_StrictlyIncreasing == Succeeded => StrictlyIncreasing(Chain)

StrictlyIncreasing_ValidInput ==
    (Succeeded /\ ValidInput) => StrictlyIncreasing(Chain)

\* C3: the first element of the chain of a successful verify_light_block is
\* above the height of the initial trusted state, also when the bisection is
\* entered with a gap of 1.
C3_FirstAboveTrusted ==
    (Succeeded /\ ValidInput) => Chain[1].header.height > T0.header.height

\* C4: every element of the chain of a successful verify_light_block was
\* returned by the store at its height, or accepted by the Verifier with its
\* predecessor in the chain (T0 for the first element) as the anchor.
C4_Anchored == Succeeded => Anchored(Chain, T0)

Anchored_ValidInput == (Succeeded /\ ValidInput) => Anchored(Chain, T0)

\* C8: every verify_light_block with T0.height < L.height returns (Done or
\* Abort) when the Fetcher returns every block it is asked for: it never dies
\* of a recursion without end.
FetcherAnswers == Events("fetch_error") = {}
C8_Returns ==
    (ValidInput /\ FetcherAnswers) => status \in {"Running", "Done", "Abort"}

\* The recursion that overflows the stack on a valid input has entered an
\* invocation with the arguments of an invocation that encloses it: with a
\* deterministic Verifier, Fetcher and store it repeats for ever.
Reentered ==
    \E i, j \in 1..Len(stack) : i < j /\ SameCall(stack[i], stack[j])
OverflowIsDivergence ==
    (ValidInput /\ status = "StackOverflow") => Reentered

\* C10: in every bisection of a call with H_t < H_u both recursive calls have
\* a strictly smaller height gap than the call that bisects.
C10_GapShrinks ==
    \A i \in 1..(Len(stack) - 1) :
        Gap(stack[i]) >= 1 => Gap(stack[i + 1]) < Gap(stack[i])

\* For a gap of 2 and more they have.
GapShrinks_FromTwo ==
    \A i \in 1..(Len(stack) - 1) :
        Gap(stack[i]) >= 2 =>
            /\ Gap(stack[i + 1]) < Gap(stack[i])
            /\ Gap(stack[i + 1]) >= 1
\* C5: when the store holds a state at L.height, the call issues no Verifier
\* and no Fetcher query and returns exactly [store.get(L.height)], whatever
\* T0 is.
StoredTarget == trusted_store[Target.height]
StoreHasTarget ==
    /\ log # <<>>
    /\ log[1] = GetEvent(1, Target.height, TRUE)
C5_StoreShortcut ==
    StoreHasTarget =>
        /\ StoredTarget \in StatesAt(Target.height)
        /\ log = <<GetEvent(1, Target.height, TRUE)>>
        /\ status \in {"Running", "Done"}
        /\ status = "Running" => ret = Ok(<<StoredTarget>>) /\ stack = <<>>
        /\ status = "Done" => result = Ok(<<StoredTarget>>)
C5_Witness ==
    /\ StoreHasTarget
    /\ Succeeded
    /\ T0.header.height >= Target.height
    /\ StoredTarget # StateOf(Target)
    /\ StoredTarget # T0

\* C6: when the direct Verifier query of a call fails with an error E other
\* than InsufficientVotingPower, the call returns
\* Err(InvalidLightBlock(E)) with the same E and issues no Fetcher query:
\* the failed query is the last query, and E is what is returned.
LastQueryFailedWith(e) ==
    /\ log # <<>>
    /\ Last(log).kind = "verifier"
    /\ Last(log).response = VerificationFailed(e)
C6_FatalErrorReturned ==
    \A e \in VerifierError \ {InsufficientVotingPower} :
        /\ \A i \in Events("verifier") :
              log[i].response = VerificationFailed(e) => i = Len(log)
        /\ LastQueryFailedWith(e) =>
              \/ status = "Running" /\ ret = Err(InvalidLightBlock(e))
              \/ status = "Abort" /\ result = Err(InvalidLightBlock(e))
C6_Witness ==
    /\ status = "Abort"
    /\ LastQueryFailedWith("InsufficientValidatorsOverlap")
    /\ Events("rpc") = {}
    /\ result = Err(InvalidLightBlock("InsufficientValidatorsOverlap"))

\* C7: no call returns an error of kind InsufficientVotingPower: every
\* InsufficientVotingPower answer, at any level and any gap, leads to the
\* bisection (the fetch of the pivot is the next query).
BisectedAfter(i) ==
    \/ /\ i < Len(log)
       /\ log[i + 1] = RpcEvent(log[i].depth,
             (log[i].request.trusted_state.header.height
                 + log[i].request.light_block.height) \div 2)
    \/ i = Len(log) /\ status = "Panic"
C7_NeverSurfaced ==
    /\ ret.kind = "Err" => ret.err.err # InsufficientVotingPower
    /\ result.kind = "Err" => result.err.err # InsufficientVotingPower
    /\ \A i \in Events("verifier") :
          log[i].response = VerificationFailed(InsufficientVotingPower)
              => BisectedAfter(i)
C7_Witness ==
    /\ status = "Abort"
    /\ \E i \in Events("verifier") :
          /\ log[i].response = VerificationFailed(InsufficientVotingPower)
          /\ Gap(log[i].request) = 1
          /\ log[i].depth = 2

\* C9: with a Verifier that accepts every gap <= 1 (and answers
\* InsufficientVotingPower or accepts on larger gaps), verify_light_block
\* makes at most ceil(log2(H_u - H_t)) + 1 calls of verify_light_block.
CeilLog2(n) == CHOOSE k \in 0..n : 2^k >= n /\ \A m \in 0..(k - 1) : 2^m < n
UnitVerifier ==
    \A a \in verifier_answers :
        IF Gap(a.request) <= 1
        THEN a.response.kind = "VerificationSucceeded"
        ELSE a.response \in {VerificationSucceeded(StateOf(a.request.light_block)),
                             VerificationFailed(InsufficientVotingPower)}
DeepestCall ==
    IF log = <<>> THEN 0
    ELSE CHOOSE d \in {log[i].depth : i \in 1..Len(log)} :
            \A i \in 1..Len(log) : log[i].depth <= d
C9_LogarithmicCalls ==
    (UnitVerifier /\ ValidInput) => NumCalls <= CeilLog2(Gap(input)) + 1

\* C9 as it holds: at most 2 * (H_u - H_t) - 1 calls in all, nested at most
\* ceil(log2(H_u - H_t)) + 1 deep, and the recursion ends.
C9_LinearCalls ==
    (UnitVerifier /\ ValidInput) =>
        /\ NumCalls <= 2 * Gap(input) - 1
        /\ DeepestCall <= CeilLog2(Gap(input)) + 1
        /\ status # "StackOverflow"
C9_Witness ==
    /\ UnitVerifier /\ ValidInput
    /\ Succeeded
    /\ Gap(input) = MaxHeight
    /\ NumCalls = 2 * MaxHeight - 1
    /\ DeepestCall = CeilLog2(MaxHeight) + 1

\* C11: an invocation with T0.header.height >= L.height is answered with the
\* input error InvalidInput: it queries neither the Verifier nor the Fetcher
\* and it returns no chain.
Finished == status \in {"Done", "Abort"}
IsIVP(i) ==
    /\ log[i].kind = "verifier"
    /\ log[i].response = VerificationFailed(InsufficientVotingPower)
C11_InvalidInputRejected ==
    (status # "Idle" /\ ~ValidInput)
        => /\ Events("verifier") = {}
           /\ Events("rpc") = {}
           /\ Finished => result = Err([kind |-> "InvalidInput"])

\* C12: when trusted_height + untrusted_height exceeds the largest Height
\* (here for an invocation with T0.height < L.height), the invocation returns the error HeightOverflow as a value: the process
\* does not panic and no pivot is fetched.
Overflows(i) ==
    HeightOverflow(log[i].request.trusted_state.header.height,
                   log[i].request.light_block.height)
C12_OverflowReturned ==
    \A i \in Events("verifier") :
        (ValidInput /\ IsIVP(i) /\ Overflows(i))
            => /\ status # "Panic"
               /\ i = Len(log)
               /\ Finished => result = Err([kind |-> "HeightOverflow"])

\* C13: a direct verification that fails with InsufficientVotingPower at
\* gap 1 (in an invocation with T0.height < L.height) ends the invocation with an error: no block is fetched and
\* verify_light_block is not entered again.
C13_GapOneAborts ==
    \A i \in Events("verifier") :
        (ValidInput /\ IsIVP(i) /\ Gap(log[i].request) = 1)
            => /\ i = Len(log)
               /\ status \in {"Running", "Abort"}
               /\ status = "Abort" => result.kind = "Err"

\* C14: the queries are issued depth-first and left-first.  In the log, the
\* events below a bisection (a fetch at depth d) start with the left call's
\* lookup of the pivot; the one other call at depth d + 1 is the right call,
\* for the target, and everything before it belongs to the left recursion.
\* Every query is issued by the innermost call, and a Verifier query of a
\* right call is anchored at the last state of the left result.
Below(j) ==
    {i \in (j + 1)..Len(log) :
        \A m \in (j + 1)..i : log[m].depth > log[j].depth}
ChildCalls(j) ==
    {i \in Below(j) : log[i].kind = "get" /\ log[i].depth = log[j].depth + 1}
LeftBeforeRight ==
    \A j \in Events("rpc") :
        /\ IsIVP(j - 1)
        /\ Cardinality(ChildCalls(j)) <= 2
        /\ Below(j) # {} =>
              /\ j + 1 \in ChildCalls(j)
              /\ log[j + 1].height = log[j].height
        /\ \A i \in ChildCalls(j) \ {j + 1} :
              log[i].height = log[j - 1].request.light_block.height
NewEvents == {i \in 1..Len(log') : i > Len(log)}
IssuedByInnermost ==
    \A i \in NewEvents :
        /\ log'[i].depth = Depth
        /\ \A k \in 1..(Depth - 1) :
              /\ stack[k].pc \in {"left", "right"}
              /\ stack[k].pc = "left" <=> stack[k].pivot_trusted_states = <<>>
        /\ (log'[i].kind = "verifier" /\ Depth > 1) =>
              LET parent == stack[Depth - 1]
                  request == log'[i].request
              IN IF parent.pc = "left"
                 THEN /\ request.trusted_state = parent.trusted_state
                      /\ request.light_block =
                            query_rpc(pivot_height(parent.trusted_state.header.height,
                                                   parent.light_block.height))
                 ELSE /\ request.trusted_state = Last(parent.pivot_trusted_states)
                      /\ request.light_block = parent.light_block
C14_DepthFirstLeftFirst == []LeftBeforeRight /\ [][IssuedByInnermost]_vars
C14_Witness ==
    /\ status = "Done"
    /\ \E i, j \in Events("verifier") :
          /\ i < j
          /\ log[i].depth = 2 /\ log[j].depth = 2
          /\ log[i].response.kind = "VerificationSucceeded"
          /\ log[j].request.trusted_state = log[i].response.trusted_state
          /\ log[j].request.trusted_state # T0
          /\ log[j].request.light_block = Target

\* C15: the error a call returns is the first fatal error of the run, in
\* query order, and it is the last query: the log holds one fatal failure,
\* at its end, and the returned error carries it.  While the error travels
\* to the caller, each step leaves one recursion level, starts no right
\* recursion, issues no query and hands the same error on.
IsFatal(i) ==
    \/ /\ log[i].kind = "verifier"
       /\ log[i].response.kind = "VerificationFailed"
       /\ log[i].response.err # InsufficientVotingPower
    \/ log[i].kind = "fetch_error"
    \/ IsIVP(i) /\ Overflows(i)
FatalEvents == {i \in 1..Len(log) : IsFatal(i)}
FirstFatalIsLast ==
    /\ \A i \in FatalEvents : i = Len(log)
    /\ \A r \in {ret, result} :
          r.kind = "Err" =>
              /\ FatalEvents = {Len(log)}
              /\ Last(log).kind = "verifier"
              /\ r = Err(InvalidLightBlock(Last(log).response.err))
ErrorTravels ==
    ret.kind = "Err" =>
        /\ log' = log
        /\ IF stack # <<>>
           THEN stack' = Pop /\ ret' = ret /\ result' = result
           ELSE stack' = stack /\ result' = ret /\ status' = "Abort"
C15_FirstErrorPropagated == []FirstFatalIsLast /\ [][ErrorTravels]_vars
C15_Witness ==
    /\ status = "Abort"
    /\ Len(log) > 3
    /\ Last(log).depth = 3
    /\ log[Len(log) - 2].kind = "rpc"
    /\ result = Err(InvalidLightBlock(Last(log).response.err))

\* C16: verify_light_block never changes the trusted store.  An entry that
\* a get has returned stays what it was; a step touches one entry at most,
\* the one its get reads, and the entry is what the get returned (a state on
\* a hit, nothing on a miss).  An error carries the Verifier's error and no
\* trusted state, also after a left recursion has completed.
StoreOnlyRead ==
    \A h \in Heights :
        trusted_store'[h] # trusted_store[h] =>
            /\ trusted_store[h] = Unread
            /\ NewEvents # {}
            /\ log'[Len(log) + 1] =
                  GetEvent(Depth, h, trusted_store'[h] # NoState)
            /\ \A g \in Heights \ {h} : trusted_store'[g] = trusted_store[g]
NoStatesOnError ==
    \A r \in {ret, result} :
        r.kind = "Err" =>
            /\ DOMAIN r = {"kind", "err"}
            /\ r.err \in {InvalidLightBlock(e) : e \in FatalErrors}
C16_StoreUnchanged == []NoStatesOnError /\ [][StoreOnlyRead]_vars
C16_Witness ==
    /\ status = "Abort"
    /\ result.kind = "Err"
    /\ \E i \in Events("verifier") :
          /\ log[i].depth = 2
          /\ log[i].response.kind = "VerificationSucceeded"
    /\ \E h \in Heights : trusted_store[h] \notin {Unread, NoState}

\* C18: when the Fetcher cannot return the block of a pivot, the invocation
\* returns the error FetchFailed carrying the fetch error, and no query
\* follows.
C18_FetchFailedReturned ==
    \A i \in Events("fetch_error") :
        /\ i = Len(log)
        /\ status \in {"Running", "Abort"}
        /\ status = "Abort" =>
              result = Err([kind |-> "FetchFailed",
                            err |-> [kind |-> "FetchError", height |-> log[i].height]])

\* C20: the Fetcher is queried exactly after an InsufficientVotingPower
\* answer of the Verifier.  Every fetch follows such an answer of the same
\* call and asks for floor((H_t + H_u) / 2), which lies in [H_t, H_u) when
\* H_t < H_u; every such answer is followed by that one fetch (checked for
\* the invocations with T0.height < L.height).
AnchorHeight(i) == log[i].request.trusted_state.header.height
CandidateHeight(i) == log[i].request.light_block.height
FetchFollowsIVP ==
    \A j \in Events("rpc") :
        /\ IsIVP(j - 1)
        /\ log[j].depth = log[j - 1].depth
        /\ log[j].height = (AnchorHeight(j - 1) + CandidateHeight(j - 1)) \div 2
        /\ AnchorHeight(j - 1) < CandidateHeight(j - 1) =>
              /\ AnchorHeight(j - 1) <= log[j].height
              /\ log[j].height < CandidateHeight(j - 1)
        /\ j < Len(log) => log[j + 1].kind # "rpc"
Fetched(i) == i < Len(log) /\ log[i + 1].kind = "rpc"
C20_FetchIffIVP ==
    /\ FetchFollowsIVP
    /\ \A i \in Events("verifier") : (ValidInput /\ IsIVP(i)) => Fetched(i)
\* C20, amended: an InsufficientVotingPower answer is followed by the one
\* fetch unless H_t + H_u exceeds the largest Height; then no fetch is
\* issued and the run ends there.
C20_FetchIffIVPNoOverflow ==
    /\ FetchFollowsIVP
    /\ \A i \in Events("verifier") :
          IsIVP(i) =>
              IF Overflows(i)
              THEN i = Len(log) /\ status = "Panic"
              ELSE Fetched(i)
C20_Witness ==
    /\ status = "Done"
    /\ \E i, j \in Events("verifier") :
          /\ IsIVP(i) /\ IsIVP(j)
          /\ log[i].depth = 1 /\ log[j].depth = 2
          /\ Fetched(i) /\ Fetched(j)
          /\ log[j + 1].height > AnchorHeight(j)
    /\ \E i \in Events("verifier") : ~IsIVP(i) /\ ~Fetched(i) /\ i < Len(log)

\* C17: verify_light_block is deterministic.  A second invocation with the
\* arguments of the first, on the same store content and with the same
\* answers of the Verifier and the Fetcher, issues the queries of the first
\* in the same order and returns what the first returned.
SecondRun == previous # NoRun
C17_Deterministic ==
    SecondRun =>
        /\ Len(log) <= Len(previous.log)
        /\ log = SubSeq(previous.log, 1, Len(log))
        /\ status \in {"Running", previous.status}
        /\ Finished => (log = previous.log /\ result = previous.result)
C17_Witness ==
    /\ SecondRun
    /\ status = "Done"
    /\ Len(result.states) > 1
    /\ \E i \in Events("get") : log[i].found
    /\ \E i \in Events("verifier") : log[i].response.kind = "VerificationSucceeded"

\* C19: finalize panics exactly when a Failure, a ReadError or a ParseError
\* has been recorded by the run_for_file / run_foreach_in_dir calls before it
\* (with an output directory that can be created); with Success results only
\* it returns.
Accumulated(test_result) ==
    \E name \in DOMAIN results : Recorded(name, test_result) # {}
C19_PanicsIffFailure ==
    finalized \in {"Panicked", "Returned"} =>
        (finalized = "Panicked"
            <=> (Accumulated("Failure") \/ Accumulated("ReadError")
                    \/ Accumulated("ParseError")))

\* C21: the chain a bisection returns, right ++ left sorted by height, is the
\* left recursion's result followed by the right recursion's result.
BisectionReturns ==
    /\ status = "Running"
    /\ stack # <<>>
    /\ ret.kind = "Ok"
    /\ Top.pc = "right"
LeftThenRight ==
    BisectionReturns => ret' = Ok(Top.pivot_trusted_states \o ret.states)
C21_MergeIsConcat == [][LeftThenRight]_vars
\* The same for the inputs the Scheduler requires (H_t < H_u).
MergeIsConcat_ValidInput == [][ValidInput => LeftThenRight]_vars

\* C22: the store is consulted at every recursion level.  When the store
\* holds a state at a bisection's pivot height, the Fetcher has been asked
\* for that height just before the left call's lookup; the left call returns
\* the stored state alone, with no Verifier query on the pivot block (the
\* next event is the right call's lookup of the target); and the Verifier
\* query of the right call is anchored at the stored state.
PivotHits ==
    {j \in Events("rpc") :
        j < Len(log) /\ log[j + 1].kind = "get" /\ log[j + 1].found}
PivotHitInLog ==
    \A j \in PivotHits :
        LET pivot == log[j].height
            target == log[j - 1].request.light_block
        IN /\ log[j + 1] = GetEvent(log[j].depth + 1, pivot, TRUE)
           /\ trusted_store[pivot] \in TrustedState
           /\ j + 2 <= Len(log) =>
                 log[j + 2].kind = "get" /\ log[j + 2].height = target.height
           /\ (j + 3 <= Len(log) /\ ~log[j + 2].found) =>
                 /\ log[j + 3].kind = "verifier"
                 /\ log[j + 3].depth = log[j].depth + 1
                 /\ log[j + 3].request =
                       VerifyLightBlock(trusted_store[pivot], target,
                                        log[j - 1].request.options)
LeftCallHits ==
    /\ Depth > 1
    /\ stack[Depth - 1].pc = "left"
    /\ NewEvents # {}
    /\ log'[Len(log) + 1].kind = "get"
    /\ log'[Len(log) + 1].found
PivotHitReturnsStored ==
    LeftCallHits =>
        /\ Last(log) = RpcEvent(Depth - 1, Top.light_block.height)
        /\ Len(log') = Len(log) + 1
        /\ verifier_answers' = verifier_answers
        /\ ret' = Ok(<<trusted_store'[Top.light_block.height]>>)
        /\ stack' = Pop
C22_PivotFromStore == []PivotHitInLog /\ [][PivotHitReturnsStored]_vars
C22_Witness ==
    /\ status = "Done"
    /\ \E j \in PivotHits :
          /\ j + 3 <= Len(log)
          /\ log[j + 3].kind = "verifier"
          /\ log[j + 3].request.trusted_state = trusted_store[log[j].height]
          /\ trusted_store[log[j].height] # StateOf(query_rpc(log[j].height))
          /\ trusted_store[log[j].height] # T0

\* C24: the chain of a successful call has one state more than the call
\* issued Fetcher queries, and as many states as the Verifier gave
\* VerificationSucceeded answers plus the store gave hits.
FetcherQueries == Events("rpc")
SucceededResponses ==
    {i \in Events("verifier") : log[i].response.kind = "VerificationSucceeded"}
StoreHits == {i \in Events("get") : log[i].found}
C24_ChainLength ==
    Succeeded =>
        /\ Len(Chain) = Cardinality(FetcherQueries) + 1
        /\ Len(Chain) = Cardinality(SucceededResponses) + Cardinality(StoreHits)
C24_Witness ==
    /\ Succeeded
    /\ Len(Chain) >= 3
    /\ StoreHits # {}
    /\ Cardinality(SucceededResponses) >= 2

\* C23: run_for_input tries an input as a batch only when no registered test
\* parses it.  It records a ParseError for the path exactly when no test
\* parses the input and the batches produce no sub-test; when tests parse the
\* input it records one result for each of them, under the path, and nothing
\* else; when none does and the batches produce sub-tests it is run on every
\* sub-test, under the path followed by the sub-test's name.
ParsingTests(content) ==
    {i \in 1..Len(tests) : content.parse_as[i] # "Err"}
NewResults(before, after, name) ==
    IF name \notin DOMAIN after THEN <<>>
    ELSE SubSeq(after[name], Len(results_for(before, name)[name]) + 1,
                Len(after[name]))
OneResultPerParsingTest(content, path, after) ==
    \A name \in DOMAIN after :
        LET new_results == NewResults(results, after, name)
        IN /\ Len(new_results) =
                 Cardinality({i \in ParsingTests(content) : tests[i] = name})
           /\ \A k \in 1..Len(new_results) :
                 /\ new_results[k][1] = path
                 /\ new_results[k][2] \in {"Success", "Failure"}
RunsAsSpecified(content) ==
    LET path == <<TestFile>>
        after == run_for_input(results, path, content)
        sub_tests == BatchTests(path, content, 1)
    IN /\ ParsingTests(content) # {} =>
             OneResultPerParsingTest(content, path, after)
       /\ (ParsingTests(content) = {} /\ sub_tests = <<>>)
             <=> after = parse_error(results, path)
       /\ (ParsingTests(content) = {} /\ sub_tests # <<>>) =>
             /\ after = RunAll(results, sub_tests)
             /\ \A k \in 1..Len(sub_tests) :
                   /\ Len(sub_tests[k].path) = Len(path) + 1
                   /\ SubSeq(sub_tests[k].path, 1, Len(path)) = path
C23_RunForInput ==
    \A content \in Inputs(tests, batches) : RunsAsSpecified(content)
\* The same for the inputs on which every panic of a test runs the hook.
PanicsCaptured(content) ==
    \A i \in 1..Len(tests) : content.parse_as[i] # "panics_unhooked"
RunForInput_PanicsCaptured ==
    \A content \in Inputs(tests, batches) :
        PanicsCaptured(content) => RunsAsSpecified(content)

====
